---- MODULE Spec2Model ----
(***************************************************************************)
(* A model of api/admin.py: the registry RestFulAdminSite, the permission  *)
(* resolver AuthPermissionViewSetMixin / HasPermissionAccess, the field    *)
(* diff helper ModelDiffHelper and the request handlers of RestFulAdminMVS.*)
(***************************************************************************)
EXTENDS Integers, Sequences, FiniteSets, TLC

VARIABLES
    \* RestFulAdminSite
    registry,       \* _registry: insertion-ordered dict, a sequence of [model, view]
    classes,        \* the view classes that exist; classes[1] is RestFulAdminMVS
    url_patterns,   \* _url_patterns
    lastCall,       \* the last call on the site: its arguments, how it ended,
                    \* and what it returned
    \* ModelDiffHelper
    helper,         \* the helper object: __initial and _new_object
    given,          \* the instances the helper was handed, in order
    \* a handler class (a RestFulAdminMVS subclass for the model Widget)
    view,           \* its class attributes: permission_map,
                    \* NOT_FOUND_PERMISSION_DEFAULT, and its extra action
    \* permission resolution
    query,          \* the last _has_perm_action(action, request, obj) call
    answer,         \* and what it returned
    \* the persistence layer and the audit log behind the handler
    store,          \* the Widget table: primary key -> record
    next_pk,        \* the table's next primary key
    log,            \* the LogEntry table, in order of writing
    \* the request being served by the handler
    request,        \* the last request
    response,       \* its response
    effects         \* what its handler did to the store and the log, in order

siteVars == <<registry, classes, url_patterns, lastCall>>

diffVars == <<helper, given>>

permVars == <<query, answer>>

apiVars == <<store, next_pk, log, request, response, effects>>

vars == <<siteVars, diffVars, view, permVars, apiVars>>

-----------------------------------------------------------------------------
\* Bounds of the model.

\* view classes that may exist besides RestFulAdminMVS
MaxClasses == 2
\* extra url patterns that may be registered
MaxPatterns == 1
\* calls of set_changed_model on one helper
MaxCalls == 2
\* records the Widget table may ever have held
MaxPk == 2
\* entries of the audit log
MaxLog == 3

-----------------------------------------------------------------------------
\* The python values None and "attribute not set on this class", where the
\* other values are names.
None == "None"
Unset == "Unset"

\* An optional structured value: None is the empty sequence, a value x is <<x>>.
Nothing == <<>>
Some(x) == <<x>>
Get(opt) == opt[1]

\* The model classes handed to the site; AbstractBase has Meta.abstract = True.
Models == {"Widget", "Gadget", "AbstractBase"}

Abstract(model) == model = "AbstractBase"

\* model._meta.model_name: the class name in lower case.
ModelName(model) ==
    CASE model = "Widget" -> "widget"
      [] model = "Gadget" -> "gadget"
      [] model = "AbstractBase" -> "abstractbase"

\* f"{model.__name__}Admin"
AdminName(model) == <<model, "Admin">>

\* generate_docs(model): the text is a function of the model's names.
GenerateDocs(model) == <<"docs", ModelName(model)>>

\* The class RestFulAdminMVS itself: queryset = None, no serializer_class.
RestFulAdminMVS ==
    [name |-> "RestFulAdminMVS", base |-> 0, options |-> [queryset |-> Unset],
     doc |-> None, queryset |-> None, serializer_class |-> None]

\* self.default_view_class: the place of RestFulAdminMVS among the classes.
default_view_class == 1

\* Attribute lookup on a class: its own attribute, else its base's.
RECURSIVE ClassAttr(_, _, _)
ClassAttr(cs, c, attr) ==
    IF c = 0 THEN None
    ELSE IF cs[c][attr] # Unset THEN cs[c][attr]
    ELSE ClassAttr(cs, cs[c].base, attr)

\* model in self._registry
InRegistry(reg, model) == \E i \in 1..Len(reg) : reg[i].model = model

\* A del that leaves the entry in place.
DelEntryKeeps(reg, model) == reg

\* del self._registry[model]
DelEntry(reg, model) == SelectSeq(reg, LAMBDA e : e.model # model)

\* self._registry[model] = view_class: a new key goes last, an old one keeps its place.
SetEntry(reg, model, view_class) ==
    IF InRegistry(reg, model)
    THEN [i \in 1..Len(reg) |->
            IF reg[i].model = model
            THEN [model |-> model, view |-> view_class] ELSE reg[i]]
    ELSE Append(reg, [model |-> model, view |-> view_class])

\* type(f"{model.__name__}Admin", (view_class,), options)
NewViewClass(model, view_class, options) ==
    [name |-> AdminName(model), base |-> view_class, options |-> options,
     doc |-> GenerateDocs(model), queryset |-> options.queryset,
     serializer_class |-> Unset]

\* The loop of register without its AlreadyRegistered test: a second
\* registration replaces the entry.
RECURSIVE RegisterLoopOverwrites(_, _, _, _)
RegisterLoopOverwrites(st, ms, view_class, options) ==
    IF ms = <<>> THEN [st EXCEPT !.outcome = "ok"]
    ELSE LET model == Head(ms) IN
        IF Abstract(model) THEN [st EXCEPT !.outcome = "ImproperlyConfigured"]
        ELSE LET cs == Append(st.classes, NewViewClass(model, view_class, options))
                 new == Len(cs)
             IN RegisterLoopOverwrites(
                    [st EXCEPT !.classes = cs,
                               !.registry = SetEntry(st.registry, model, new)],
                    Tail(ms), new, options)

\* The loop of register over the models left, from the state st it has made.
RECURSIVE RegisterLoop(_, _, _, _)
RegisterLoop(st, ms, view_class, options) ==
    IF ms = <<>> THEN [st EXCEPT !.outcome = "ok"]
    ELSE LET model == Head(ms) IN
        IF Abstract(model) THEN [st EXCEPT !.outcome = "ImproperlyConfigured"]
        ELSE IF InRegistry(st.registry, model)
        THEN [st EXCEPT !.outcome = "AlreadyRegistered"]
        ELSE LET cs == Append(st.classes, NewViewClass(model, view_class, options))
                 \* view_class is reassigned: the next model's class derives from it
                 new == Len(cs)
             IN RegisterLoop(
                    [st EXCEPT !.classes = cs,
                               !.registry = SetEntry(st.registry, model, new)],
                    Tail(ms), new, options)

\* The loop of unregister over the models left.
RECURSIVE UnregisterLoop(_, _)
UnregisterLoop(st, ms) ==
    IF ms = <<>> THEN [st EXCEPT !.outcome = "ok"]
    ELSE LET model == Head(ms) IN
        IF ~InRegistry(st.registry, model)
        THEN [st EXCEPT !.outcome = "NotRegistered"]
        ELSE UnregisterLoop(
                [st EXCEPT !.registry = DelEntry(st.registry, model)],
                Tail(ms))

\* is_registered(model)
is_registered(model) == InRegistry(registry, model)

\* get_model_url(model)
get_model_url(model) == ModelName(model)

\* The loop of get_urls over the registry entries left: the classes after the
\* defaulting of queryset and serializer_class, and the routes registered.
RECURSIVE GetUrlsLoop(_, _, _)
GetUrlsLoop(cs, routes, entries) ==
    IF entries = <<>> THEN [classes |-> cs, routes |-> routes]
    ELSE LET model == Head(entries).model
             view_set == Head(entries).view
             cs1 == IF ClassAttr(cs, view_set, "queryset") = None
                    THEN [cs EXCEPT ![view_set].queryset = model]
                    ELSE cs
             cs2 == IF ClassAttr(cs1, view_set, "serializer_class") = None
                    THEN [cs1 EXCEPT ![view_set].serializer_class = model]
                    ELSE cs1
         IN GetUrlsLoop(cs2,
                Append(routes, [prefix |-> get_model_url(model), viewset |-> view_set]),
                Tail(entries))

\* What register's argument may be: one model (made a list of one), or an
\* iterable of two models, distinct or repeated.
Iterables == {<<m>> : m \in Models} \cup {<<m, n>> : m, n \in Models}

\* The options of a registration: none, or an explicit queryset.
OptionSets == {[queryset |-> q] : q \in {Unset, "Gadget"}}

\* A call on the site as the caller sees it.
Call(op, arg, outcome, result) ==
    [op |-> op, arg |-> arg, outcome |-> outcome, result |-> result]

StateOf(outcome) ==
    [registry |-> registry, classes |-> classes, outcome |-> outcome]

-----------------------------------------------------------------------------
\* ModelDiffHelper

\* The values a field may hold.
Values == {1, 2, 3}

\* model._meta.fields of the records the helper is tried on, in field order.
DiffFields == <<"a", "b">>

\* The instances over these fields.
Instances == [{"a", "b"} -> Values]

\* model_to_dict(model, fields=[...]): a dict, here the sequence of its
\* (key, value) items in the order of the fields.
RECURSIVE ModelToDict(_, _)
ModelToDict(instance, fields) ==
    IF fields = <<>> THEN <<>>
    ELSE <<[key |-> Head(fields), value |-> instance[Head(fields)]]>>
            \o ModelToDict(instance, Tail(fields))

\* d[k] of a dict held as its items.
DictGet(d, k) == d[CHOOSE i \in 1..Len(d) : d[i].key = k].value

\* ModelDiffHelper(initial)
NewHelper(initial, fields) ==
    [initial |-> ModelToDict(initial, fields), new_object |-> Nothing]

\* set_changed_model that takes the new snapshot as the baseline at once.
SetChangedModelRebases(h, new_object, fields) ==
    LET data == ModelToDict(new_object, fields)
    IN [initial |-> data, new_object |-> Some(data)]

\* helper.set_changed_model(new_object)
SetChangedModel(h, new_object, fields) ==
    LET data == ModelToDict(new_object, fields)
    IN [initial |-> IF h.new_object # Nothing THEN data ELSE h.initial,
        new_object |-> Some(data)]

\* The comprehension of diff without its "if v != d2[k]".
RECURSIVE DiffItemsKeepsAll(_, _)
DiffItemsKeepsAll(d1, d2) ==
    IF d1 = <<>> THEN <<>>
    ELSE <<[key |-> Head(d1).key,
            value |-> <<Head(d1).value, DictGet(d2, Head(d1).key)>>]>>
            \o DiffItemsKeepsAll(Tail(d1), d2)

\* [(k, (v, d2[k])) for k, v in d1.items() if v != d2[k]]
RECURSIVE DiffItems(_, _)
DiffItems(d1, d2) ==
    IF d1 = <<>> THEN <<>>
    ELSE LET k == Head(d1).key
             v == Head(d1).value
         IN (IF v # DictGet(d2, k)
             THEN <<[key |-> k, value |-> <<v, DictGet(d2, k)>>]>>
             ELSE <<>>) \o DiffItems(Tail(d1), d2)

\* helper.diff; "not self._new_object" holds of None and of an empty dict.
Diff(h) ==
    IF h.new_object = Nothing \/ Get(h.new_object) = <<>> THEN <<>>
    ELSE DiffItems(h.initial, Get(h.new_object))

\* helper.has_changed: bool(self.diff)
HasChanged(h) == Diff(h) # <<>>

\* helper.changed_fields: list(self.diff.keys())
ChangedFields(h) == [i \in 1..Len(Diff(h)) |-> Diff(h)[i].key]

\* helper.get_field_diff(field_name)
GetFieldDiff(h, field_name) ==
    IF \E i \in 1..Len(Diff(h)) : Diff(h)[i].key = field_name
    THEN Some(DictGet(Diff(h), field_name))
    ELSE Nothing

DiffInit ==
    /\ helper = Nothing
    /\ given = <<>>

\* helper = ModelDiffHelper(initial)
HelperNew ==
    \E initial \in Instances :
        /\ helper' = Some(NewHelper(initial, DiffFields))
        /\ given' = <<initial>>
        /\ UNCHANGED <<siteVars, view, permVars, apiVars>>

\* helper.set_changed_model(new_object)
HelperSetChangedModel ==
    \E new_object \in Instances :
        /\ helper # Nothing
        /\ Len(given) <= MaxCalls
        /\ helper' = Some(SetChangedModel(Get(helper), new_object, DiffFields))
        /\ given' = Append(given, new_object)
        /\ UNCHANGED <<siteVars, view, permVars, apiVars>>

DiffNext == HelperNew \/ HelperSetChangedModel

-----------------------------------------------------------------------------
\* AuthPermissionViewSetMixin and HasPermissionAccess

\* The callers: each has a primary key, a set of permission codes and may be
\* a superuser.
Users == {"viewer", "editor", "root"}

UserPk(user) ==
    CASE user = "viewer" -> 1 [] user = "editor" -> 2 [] user = "root" -> 3

IsSuperuser(user) == user = "root"

\* _make_permission_key(action) for the model Widget of the app "app":
\* f"{app_label}.{action}_{model_name}"
MakePermissionKey(action) ==
    CASE action = "view" -> "app.view_widget"
      [] action = "add" -> "app.add_widget"
      [] action = "change" -> "app.change_widget"
      [] action = "delete" -> "app.delete_widget"

UserPerms(user) ==
    CASE user = "viewer" -> {MakePermissionKey("view")}
      [] user = "editor" -> {MakePermissionKey("view"), MakePermissionKey("add"),
                             MakePermissionKey("change"), MakePermissionKey("delete")}
      [] user = "root" -> {}

\* A permission specification, as a value of a permission map or of an
\* operation's annotation: a bool, a permission code, a callable, or None.
BoolPerm(b) == [kind |-> "bool", value |-> IF b THEN "True" ELSE "False"]
CodePerm(code) == [kind |-> "code", value |-> code]
CallablePerm(name) == [kind |-> "callable", value |-> name]
NonePerm == [kind |-> "none", value |-> None]

\* request.user.has_perm(perm_code): a superuser has every permission, any
\* other caller the codes granted; None is no code.
HasPerm(user, perm) ==
    IsSuperuser(user) \/ (perm.kind = "code" /\ perm.value \in UserPerms(user))

\* perm_code(self, action, request, obj) for the callables tried here:
\* one grants the collection-level check only, one grants superusers only.
CallPerm(name, action, req, obj) ==
    CASE name = "collection_only" -> obj = Nothing
      [] name = "superuser_only" -> IsSuperuser(req.user)

\* d1 updated with d2: d2's entries take precedence.
Updated(d1, d2) ==
    [k \in DOMAIN d1 \cup DOMAIN d2 |-> IF k \in DOMAIN d2 THEN d2[k] ELSE d1[k]]

EmptyMap == [k \in {} |-> NonePerm]

\* get_permission_map(): the defaults updated with the class's permission_map.
GetPermissionMap(v) ==
    Updated([a \in {"list", "retrieve", "create", "update", "partial_update", "delete"} |->
                CASE a \in {"list", "retrieve"} -> CodePerm(MakePermissionKey("view"))
                  [] a = "create" -> CodePerm(MakePermissionKey("add"))
                  [] a \in {"update", "partial_update"} -> CodePerm(MakePermissionKey("change"))
                  [] a = "delete" -> CodePerm(MakePermissionKey("delete"))],
            v.permission_map)

\* The name of the view's extra action, and what hasattr(getattr(self, action),
\* "permission") finds: only an operation made by the decorator action()
\* carries a permission, the standard operations carry none.
ExtraAction == "report"

HasPermissionAttr(v, action) ==
    action = ExtraAction /\ v.extra.kind \notin {"absent", "plain"}

\* _has_perm_action that denies an action missing from the map, whatever
\* NOT_FOUND_PERMISSION_DEFAULT is.
HasPermActionFixedDefault(v, action, req, obj) ==
    IF req.method = "OPTIONS" \/ action = "metadata" THEN TRUE
    ELSE IF action = None THEN FALSE
    ELSE LET base == GetPermissionMap(v)
             perm_map == IF HasPermissionAttr(v, action)
                         THEN Updated(base, [a \in {action} |-> v.extra])
                         ELSE base
         IN IF action \notin DOMAIN perm_map THEN FALSE
            ELSE LET perm_code == perm_map[action]
                 IN IF perm_code.kind = "callable"
                    THEN CallPerm(perm_code.value, action, req, obj)
                    ELSE IF perm_code.kind = "bool" THEN perm_code.value = "True"
                    ELSE HasPerm(req.user, perm_code)

\* _has_perm_action(action, request, obj)
HasPermAction(v, action, req, obj) ==
    IF req.method = "OPTIONS" \/ action = "metadata" THEN TRUE
    ELSE IF action = None THEN FALSE
    ELSE LET base == GetPermissionMap(v)
             perm_map == IF HasPermissionAttr(v, action)
                         THEN Updated(base, [a \in {action} |-> v.extra])
                         ELSE base
         IN IF action \notin DOMAIN perm_map THEN v.NOT_FOUND_PERMISSION_DEFAULT
            ELSE LET perm_code == perm_map[action]
                 IN IF perm_code.kind = "callable"
                    THEN CallPerm(perm_code.value, action, req, obj)
                    ELSE IF perm_code.kind = "bool" THEN perm_code.value = "True"
                    ELSE HasPerm(req.user, perm_code)

\* HasPermissionAccess.has_permission(request, view)
HasPermission(v, action, req) == HasPermAction(v, action, req, Nothing)

\* HasPermissionAccess.has_object_permission(request, view, obj)
HasObjectPermission(v, action, req, obj) ==
    HasPermAction(v, action, req, Some(obj))

\* view.action as the routes of the registered viewset set it: the operation
\* the route maps the method to, "metadata" for OPTIONS, None for a method the
\* route has no operation for.
ActionOf(v, method, route) ==
    CASE method = "OPTIONS" -> "metadata"
      [] method = "GET" /\ route = "list" -> "list"
      [] method = "POST" /\ route = "list" -> "create"
      [] method = "GET" /\ route = "detail" -> "retrieve"
      [] method = "PUT" /\ route = "detail" -> "update"
      [] method = "PATCH" /\ route = "detail" -> "partial_update"
      [] method = "DELETE" /\ route = "detail" -> "destroy"
      [] method = "GET" /\ route = "extra" /\ v.extra.kind # "absent" -> ExtraAction
      [] OTHER -> None

Methods == {"GET", "POST", "PUT", "PATCH", "DELETE", "OPTIONS"}

\* The class attributes of a handler class.
ViewClass(permission_map, not_found_default, extra) ==
    [permission_map |-> permission_map,
     NOT_FOUND_PERMISSION_DEFAULT |-> not_found_default,
     extra |-> extra]

\* The handler as registered with no options: the class attributes of
\* AuthPermissionViewSetMixin, and no extra action.
DefaultView == ViewClass(EmptyMap, FALSE, [kind |-> "absent", value |-> None])

PermissionSpecs ==
    {BoolPerm(TRUE), BoolPerm(FALSE), CodePerm(MakePermissionKey("delete")),
     CallablePerm("collection_only"), CallablePerm("superuser_only")}

\* The permission_map overrides tried: none, or one entry.
PermissionMaps ==
    {EmptyMap} \cup
    {[a \in {k} |-> p] : k \in {"create", "destroy", "delete"}, p \in PermissionSpecs}

\* The extra action: absent, made by the framework's decorator ("plain": no
\* permission attribute), or made by action(permission=...), None by default.
ExtraActions ==
    {[kind |-> "absent", value |-> None], [kind |-> "plain", value |-> None], NonePerm}
        \cup PermissionSpecs

PermViews ==
    {ViewClass(m, d, e) : m \in PermissionMaps, d \in BOOLEAN, e \in ExtraActions}

-----------------------------------------------------------------------------
\* RestFulAdminMVS: the handlers, over the Widget table and the audit log.

HTTP_201_CREATED == 201
HTTP_204_NO_CONTENT == 204

\* Widget._meta.fields, in field order, and Widget._meta.verbose_name.
WidgetFields == <<"id", "name">>
VerboseName == "widget"

\* The values of the field name: blank is what the serializer refuses.
Names == {"x", "y"}
Blank == ""

\* The primary key of an instance that is not in the table (pk is None).
NoPk == 0

\* str(instance): Model.__str__, "Widget object (<pk>)".
Str(instance) == [type |-> "str", value |-> <<"Widget object", instance.id>>]

\* get_content_type_for_model(object).pk
ContentTypeId(instance) == "app.widget"

\* LogEntry.objects.log_action(...): one more entry in the log.
LogAction(st, entry) ==
    [st EXCEPT !.log = Append(st.log, entry),
               !.trace = Append(st.trace, "log_action")]

\* The LogEntry that log_action is asked for.
LogEntry(user_id, content_type_id, object_id, object_repr, flag, message) ==
    [user_id |-> user_id, content_type_id |-> content_type_id,
     object_id |-> object_id, object_repr |-> object_repr,
     action_flag |-> flag, change_message |-> message]

\* log_addition(request, object, message)
LogAddition(st, req, object, message) ==
    LogAction(st, LogEntry(UserPk(req.user), ContentTypeId(object), object.id,
                           Str(object), "ADDITION", message))

\* log_change(request, object, message)
LogChange(st, req, object, message) ==
    LogAction(st, LogEntry(UserPk(req.user), ContentTypeId(object), object.id,
                           Str(object), "CHANGE", message))

\* log_deletion(request, object, object_repr): no change_message is passed.
LogDeletion(st, req, object, object_repr) ==
    LogAction(st, LogEntry(UserPk(req.user), ContentTypeId(object), object.id,
                           object_repr, "DELETION", <<>>))

\* serializer.is_valid(): name is required unless the update is partial, and
\* may not be blank.
IsValid(data, partial) ==
    /\ data # Nothing \/ partial
    /\ data # Nothing => Get(data) # Blank

\* serializer.data of an instance: all fields of the model.
Representation(instance) == [id |-> instance.id, name |-> instance.name]

Response(status, kind, data) == [status |-> status, kind |-> kind, data |-> data]

\* perform_create(serializer): the new record is saved and is serializer.instance.
PerformCreate(st, data) ==
    LET instance == [id |-> st.next_pk, name |-> Get(data)]
    IN [st EXCEPT !.store = [k \in DOMAIN st.store \cup {instance.id} |->
                                IF k = instance.id THEN instance ELSE st.store[k]],
                  !.next_pk = st.next_pk + 1,
                  !.instance = instance,
                  !.trace = Append(st.trace, "perform_create")]

\* perform_update(serializer): the instance fetched is changed in place and saved.
PerformUpdate(st, data) ==
    LET instance == IF data = Nothing THEN st.instance
                    ELSE [st.instance EXCEPT !.name = Get(data)]
    IN [st EXCEPT !.store = [st.store EXCEPT ![instance.id] = instance],
                  !.instance = instance,
                  !.trace = Append(st.trace, "perform_update")]

\* perform_destroy(instance): the record is deleted; the instance in memory
\* has no primary key afterwards.
PerformDestroy(st) ==
    [st EXCEPT !.store = [k \in DOMAIN st.store \ {st.instance.id} |-> st.store[k]],
               !.instance = [st.instance EXCEPT !.id = NoPk],
               !.trace = Append(st.trace, "perform_destroy")]

Done(st, resp) == [st EXCEPT !.response = resp]

\* create without its log_addition.
CreateSkipsLog(st, req) ==
    IF ~IsValid(req.data, FALSE) THEN Done(st, Response(400, "errors", <<>>))
    ELSE LET st1 == PerformCreate(st, req.data)
         IN Done(st1, Response(HTTP_201_CREATED, "item",
                               <<Representation(st1.instance)>>))

\* create(request)
Create(st, req) ==
    IF ~IsValid(req.data, FALSE) THEN Done(st, Response(400, "errors", <<>>))
    ELSE LET st1 == PerformCreate(st, req.data)
             st2 == LogAddition(st1, req, st1.instance,
                        <<[kind |-> "added", name |-> VerboseName,
                           object |-> Str(st1.instance)]>>)
         IN Done(st2, Response(HTTP_201_CREATED, "item",
                               <<Representation(st2.instance)>>))

\* update(request, pk, partial=...), after get_object() has fetched the instance
Update(st, req, partial) ==
    IF ~IsValid(req.data, partial) THEN Done(st, Response(400, "errors", <<>>))
    ELSE LET helper0 == NewHelper(st.instance, WidgetFields)
             st1 == PerformUpdate(st, req.data)
             st2 == LogChange(st1, req, st1.instance,
                        <<[kind |-> "changed", name |-> VerboseName,
                           object |-> Str(st1.instance),
                           fields |-> ChangedFields(
                               SetChangedModel(helper0, st1.instance, WidgetFields))]>>)
         IN Done(st2, Response(200, "item", <<Representation(st2.instance)>>))

\* partial_update(request, pk): the framework's, which calls update(partial=True)
PartialUpdate(st, req) == Update(st, req, TRUE)

\* destroy with perform_destroy before log_deletion.
DestroyDeletesFirst(st, req) ==
    LET st1 == PerformDestroy(st)
        st2 == LogDeletion(st1, req, st1.instance,
                    [type |-> "list",
                     value |-> <<[kind |-> "deleted", name |-> VerboseName,
                                  object |-> Str(st1.instance)]>>])
    IN Done(st2, Response(HTTP_204_NO_CONTENT, "empty", <<>>))

\* destroy(request, pk), after get_object() has fetched the instance
Destroy(st, req) ==
    LET st1 == LogDeletion(st, req, st.instance,
                    [type |-> "list",
                     value |-> <<[kind |-> "deleted", name |-> VerboseName,
                                  object |-> Str(st.instance)]>>])
        st2 == PerformDestroy(st1)
    IN Done(st2, Response(HTTP_204_NO_CONTENT, "empty", <<>>))

\* retrieve(request, pk), after get_object()
Retrieve(st, req) == Done(st, Response(200, "item", <<Representation(st.instance)>>))

\* The records of the table in primary key order.
RECURSIVE Rows(_, _, _)
Rows(table, pk, last) ==
    IF pk > last THEN <<>>
    ELSE (IF pk \in DOMAIN table THEN <<Representation(table[pk])>> ELSE <<>>)
            \o Rows(table, pk + 1, last)

\* list(request)
List(st, req) == Done(st, Response(200, "list", Rows(st.store, 1, st.next_pk)))

\* The operation on one record: get_object() answers 404 for a missing
\* primary key, then checks the object permission, then the handler runs.
OnObject(v, st, req, action) ==
    IF req.pk \notin DOMAIN st.store THEN Done(st, Response(404, "detail", <<>>))
    ELSE LET st1 == [st EXCEPT !.instance = st.store[req.pk]]
         IN IF ~HasObjectPermission(v, action, req, st1.instance)
            THEN Done(st1, Response(403, "detail", <<>>))
            ELSE CASE action = "retrieve" -> Retrieve(st1, req)
                   [] action = "update" -> Update(st1, req, FALSE)
                   [] action = "partial_update" -> PartialUpdate(st1, req)
                   [] action = "destroy" -> Destroy(st1, req)

\* A request through the handler class: permission_classes is checked before
\* the operation is looked up and run.
Dispatch(v, st, req) ==
    LET action == ActionOf(v, req.method, req.route)
    IN IF ~HasPermission(v, action, req) THEN Done(st, Response(403, "detail", <<>>))
       ELSE CASE action = "metadata" -> Done(st, Response(200, "metadata", <<>>))
              [] action = None -> Done(st, Response(405, "detail", <<>>))
              [] action = "list" -> List(st, req)
              [] action = "create" -> Create(st, req)
              [] action = ExtraAction -> Done(st, Response(200, "extra", <<>>))
              [] OTHER -> OnObject(v, st, req, action)

-----------------------------------------------------------------------------
\* RestFulAdminSite

SiteInit ==
    /\ registry = <<>>
    /\ classes = <<RestFulAdminMVS>>
    /\ url_patterns = <<>>
    /\ lastCall = Call("init", <<>>, "ok", <<>>)

\* site.register(model_or_iterable, **options): no view_class is passed, so
\* the site's default_view_class is the base of the class made.
Register ==
    \E ms \in Iterables, options \in OptionSets :
        \E r \in {RegisterLoop(StateOf("running"), ms, default_view_class, options)} :
           /\ Len(r.classes) <= MaxClasses + 1
           /\ registry' = r.registry
           /\ classes' = r.classes
           /\ lastCall' = Call("register", ms, r.outcome, <<>>)
           /\ UNCHANGED <<url_patterns, diffVars, view, permVars, apiVars>>

\* site.unregister(model_or_iterable)
Unregister ==
    \E ms \in Iterables :
        \E r \in {UnregisterLoop(StateOf("running"), ms)} :
           /\ registry' = r.registry
           /\ lastCall' = Call("unregister", ms, r.outcome, <<>>)
           /\ UNCHANGED <<classes, url_patterns, diffVars, view, permVars, apiVars>>

\* site.register_url_pattern(url_pattern)
RegisterUrlPattern ==
    /\ Len(url_patterns) < MaxPatterns
    /\ url_patterns' = Append(url_patterns, [prefix |-> "extra", viewset |-> 0])
    /\ lastCall' = Call("register_url_pattern", <<>>, "ok", <<>>)
    /\ UNCHANGED <<registry, classes, diffVars, view, permVars, apiVars>>

\* site.get_urls()
GetUrls ==
    \E r \in {GetUrlsLoop(classes, <<>>, registry)} :
       /\ classes' = r.classes
       /\ lastCall' = Call("get_urls", <<>>, "ok", r.routes \o url_patterns)
       /\ UNCHANGED <<registry, url_patterns, diffVars, view, permVars, apiVars>>

SiteNext == Register \/ Unregister \/ RegisterUrlPattern \/ GetUrls

-----------------------------------------------------------------------------
\* Permission resolution on a handler class.

ViewInit == view = DefaultView

PermInit ==
    /\ query = Nothing
    /\ answer = FALSE

\* A handler class is written: its class attributes are chosen once.
PermViewInit == view \in PermViews

\* has_permission / has_object_permission on a request the router dispatched.
Resolve ==
    \E method \in Methods, route \in {"list", "detail", "extra"},
       user \in Users, obj \in {Nothing, Some(1)} :
        LET action == ActionOf(view, method, route)
            req == [method |-> method, user |-> user]
        IN /\ query' = Some([action |-> action, method |-> method,
                             user |-> user, obj |-> obj])
           /\ answer' = HasPermAction(view, action, req, obj)
           /\ UNCHANGED <<siteVars, diffVars, view, apiVars>>

PermNext == Resolve

-----------------------------------------------------------------------------
\* Requests served by a handler class for Widget.

NoRequest == [method |-> "none", route |-> "none", pk |-> NoPk, user |-> "none",
              data |-> Nothing]

ApiInit ==
    /\ store = [k \in {} |-> [id |-> NoPk, name |-> Blank]]
    /\ next_pk = 1
    /\ log = <<>>
    /\ request = NoRequest
    /\ response = Response(0, "none", <<>>)
    /\ effects = <<>>

\* The handler classes requests are served by: the one registered with no
\* options, and one whose permission_map names the destroy action.
ApiViews ==
    {DefaultView,
     ViewClass([a \in {"destroy"} |-> CodePerm(MakePermissionKey("delete"))], FALSE,
               [kind |-> "absent", value |-> None])}

ApiViewInit == view \in ApiViews

\* The callers of the requests: one who may only view, one who holds the four
\* permissions of the model.
ApiUsers == {"viewer", "editor"}

Payloads == {Nothing} \cup {Some(n) : n \in Names \cup {Blank}}

\* The request is served, whole: dispatch, handler, store and log writes.
Serve(req) ==
    \E st \in {Dispatch(view,
                [store |-> store, next_pk |-> next_pk, log |-> log,
                 instance |-> [id |-> NoPk, name |-> Blank],
                 trace |-> <<>>, response |-> Response(0, "none", <<>>)],
                req)} :
       /\ Len(st.log) <= MaxLog
       /\ st.next_pk <= MaxPk + 1
       /\ store' = st.store
       /\ next_pk' = st.next_pk
       /\ log' = st.log
       /\ request' = req
       /\ response' = st.response
       /\ effects' = st.trace
       /\ UNCHANGED <<siteVars, diffVars, view, permVars>>

Req(method, route, pk, user, data) ==
    [method |-> method, route |-> route, pk |-> pk, user |-> user, data |-> data]

\* GET {model}/
ReqList ==
    \E user \in ApiUsers :
        /\ Len(log) <= MaxLog
        /\ Serve(Req("GET", "list", NoPk, user, Nothing))

\* POST {model}/
ReqCreate ==
    \E user \in ApiUsers, data \in Payloads :
        /\ Len(log) <= MaxLog
        /\ Serve(Req("POST", "list", NoPk, user, data))

\* GET {model}/<pk>/
ReqRetrieve ==
    \E user \in ApiUsers, pk \in 1..MaxPk :
        /\ Len(log) <= MaxLog
        /\ Serve(Req("GET", "detail", pk, user, Nothing))

\* PUT {model}/<pk>/
ReqUpdate ==
    \E user \in ApiUsers, pk \in 1..MaxPk, data \in Payloads :
        /\ Len(log) <= MaxLog
        /\ Serve(Req("PUT", "detail", pk, user, data))

\* PATCH {model}/<pk>/
ReqPartialUpdate ==
    \E user \in ApiUsers, pk \in 1..MaxPk, data \in Payloads :
        /\ Len(log) <= MaxLog
        /\ Serve(Req("PATCH", "detail", pk, user, data))

\* DELETE {model}/<pk>/
ReqDestroy ==
    \E user \in ApiUsers, pk \in 1..MaxPk :
        /\ Len(log) <= MaxLog
        /\ Serve(Req("DELETE", "detail", pk, user, Nothing))

\* OPTIONS {model}/ and OPTIONS {model}/<pk>/
ReqOptions ==
    \E user \in ApiUsers, route \in {"list", "detail"} :
        /\ Len(log) <= MaxLog
        /\ Serve(Req("OPTIONS", route, IF route = "detail" THEN 1 ELSE NoPk, user, Nothing))

ApiNext ==
    \/ ReqList
    \/ ReqCreate
    \/ ReqRetrieve
    \/ ReqUpdate
    \/ ReqPartialUpdate
    \/ ReqDestroy
    \/ ReqOptions

-----------------------------------------------------------------------------
\* The specifications: each runs one component from its constructed state.

Init == SiteInit /\ DiffInit /\ ViewInit /\ PermInit /\ ApiInit

SpecSite == Init /\ [][SiteNext]_vars

SpecDiff == Init /\ [][DiffNext]_vars

\* A handler class is written, then its permissions are resolved.
InitPerm == SiteInit /\ DiffInit /\ PermViewInit /\ PermInit /\ ApiInit

SpecPerm == InitPerm /\ [][PermNext]_vars

\* A handler class is written, then it serves requests.
InitApi == SiteInit /\ DiffInit /\ ApiViewInit /\ PermInit /\ ApiInit

SpecApi == InitApi /\ [][ApiNext]_vars

-----------------------------------------------------------------------------
\* Properties of the registry.

Range(seq) == {seq[i] : i \in 1..Len(seq)}

RegisteredModels(reg) == {reg[i].model : i \in 1..Len(reg)}

\* The registry's entry for a registered model.
EntryOf(reg, model) == reg[CHOOSE i \in 1..Len(reg) : reg[i].model = model]

\* C5: is_registered follows the register and unregister operations. After a
\* register call that returns, every model of its argument is registered; after
\* an unregister call that returns, none is; and is_registered(model) changes
\* only in a register or unregister call that names the model, to true in a
\* register and to false in an unregister. So is_registered(model) is true
\* exactly when the last register/unregister step done on the model was a
\* register.
C5_IsRegisteredFollowsCalls ==
    [][LET c == lastCall' IN
        /\ (c.op = "register" /\ c.outcome = "ok")
              => \A m \in Range(c.arg) : InRegistry(registry', m)
        /\ (c.op = "unregister" /\ c.outcome = "ok")
              => \A m \in Range(c.arg) : ~InRegistry(registry', m)
        /\ \A m \in Models :
              (InRegistry(registry', m) # InRegistry(registry, m))
                => /\ c.op \in {"register", "unregister"}
                   /\ m \in Range(c.arg)
                   /\ InRegistry(registry', m) <=> (c.op = "register")]_vars

\* C5 witness: an unregister call has returned for a model that a register
\* call had registered, and another model is still registered.
C5_Witness ==
    /\ lastCall.op = "unregister" /\ lastCall.outcome = "ok"
    /\ lastCall.arg = <<"Widget">>
    /\ ~is_registered("Widget") /\ is_registered("Gadget")
    /\ Len(classes) = 3

\* C6: a register call that reaches a model already registered raises
\* AlreadyRegistered and leaves the model's entry as it was (for one model:
\* the registry is unchanged); an unregister call that reaches a model that is
\* not registered raises NotRegistered; and no model has two entries in the
\* registry.
C6_DuplicateAndMissingRaise ==
    [][LET c == lastCall' IN
        /\ \A m \in Models :
            /\ (c.op = "register" /\ c.arg = <<m>> /\ InRegistry(registry, m))
                  => c.outcome = "AlreadyRegistered" /\ registry' = registry
            /\ (c.op = "register" /\ m \in Range(c.arg) /\ InRegistry(registry, m))
                  => /\ c.outcome \in {"AlreadyRegistered", "ImproperlyConfigured"}
                     /\ (c.outcome = "ImproperlyConfigured"
                            => \E a \in Range(c.arg) : Abstract(a))
                     /\ InRegistry(registry', m)
                     /\ EntryOf(registry', m) = EntryOf(registry, m)
            /\ (c.op = "register" /\ c.arg = <<m, m>> /\ ~Abstract(m))
                  => c.outcome = "AlreadyRegistered"
            /\ (c.op = "unregister" /\ c.arg = <<m>> /\ ~InRegistry(registry, m))
                  => c.outcome = "NotRegistered" /\ registry' = registry
            /\ (c.op = "unregister" /\ m \in Range(c.arg) /\ ~InRegistry(registry, m))
                  => c.outcome = "NotRegistered" /\ ~InRegistry(registry', m)
            /\ (c.op = "unregister" /\ c.arg = <<m, m>>)
                  => c.outcome = "NotRegistered"
        /\ Cardinality(RegisteredModels(registry')) = Len(registry')]_vars

\* C6 witness: register has been called on a model that was registered and
\* has raised AlreadyRegistered.
C6_Witness ==
    /\ lastCall.op = "register" /\ lastCall.arg = <<"Widget">>
    /\ lastCall.outcome = "AlreadyRegistered"
    /\ is_registered("Widget")

\* C10: after get_urls, every registered handler whose registration gave no
\* queryset serves all records of its own model, and the routes are one per
\* registered model, at the model's lowercase name, in registry order.
C10_DefaultQuerysetIsOwnModel ==
    lastCall.op = "get_urls" =>
        /\ \A i \in 1..Len(registry) :
              classes[registry[i].view].options.queryset = Unset
                => ClassAttr(classes, registry[i].view, "queryset") = registry[i].model
        /\ Len(lastCall.result) = Len(registry) + Len(url_patterns)
        /\ \A i \in 1..Len(registry) :
              lastCall.result[i] = [prefix |-> ModelName(registry[i].model),
                                    viewset |-> registry[i].view]

-----------------------------------------------------------------------------
\* Properties of the diff helper.

\* The fields, in field order, whose values differ between two instances.
RECURSIVE FieldsThatDiffer(_, _, _)
FieldsThatDiffer(old, new, fields) ==
    IF fields = <<>> THEN <<>>
    ELSE (IF old[Head(fields)] # new[Head(fields)] THEN <<Head(fields)>> ELSE <<>>)
            \o FieldsThatDiffer(old, new, Tail(fields))

\* C7: for a helper built from an initial instance and handed one updated
\* instance, diff maps exactly the fields whose values are unequal to the pair
\* (old value, new value), has_changed is true iff diff is not empty,
\* changed_fields is diff's keys in field order, diff is empty for identical
\* instances, and diff is empty while no updated instance was handed over.
C7_DiffIsChangedFields ==
    /\ (helper # Nothing /\ Len(given) = 1) =>
            /\ Diff(Get(helper)) = <<>>
            /\ ~HasChanged(Get(helper))
            /\ ChangedFields(Get(helper)) = <<>>
    /\ (helper # Nothing /\ Len(given) = 2) =>
            LET old == given[1]
                new == given[2]
                h == Get(helper)
                changed == FieldsThatDiffer(old, new, DiffFields)
            IN /\ ChangedFields(h) = changed
               /\ Len(Diff(h)) = Len(changed)
               /\ \A i \in 1..Len(changed) :
                     Diff(h)[i] =
                        [key |-> changed[i],
                         value |-> <<old[changed[i]], new[changed[i]]>>]
               /\ \A f \in {"a", "b"} :
                     GetFieldDiff(h, f) =
                        IF old[f] # new[f] THEN Some(<<old[f], new[f]>>) ELSE Nothing
               /\ HasChanged(h) <=> (Diff(h) # <<>>)
               /\ HasChanged(h) <=> (old # new)

\* C7 witness: the helper of {a:1, b:2} was handed {a:1, b:3} and reports
\* the one changed field b.
C7_Witness ==
    /\ helper # Nothing
    /\ given = <<[a |-> 1, b |-> 2], [a |-> 1, b |-> 3]>>
    /\ Diff(Get(helper)) = <<[key |-> "b", value |-> <<2, 3>>]>>
    /\ HasChanged(Get(helper))
    /\ ChangedFields(Get(helper)) = <<"b">>

-----------------------------------------------------------------------------
\* Properties of permission resolution.

\* The effective permission map of a handler for an action: the defaults,
\* updated with the handler's permission_map, updated with the annotation of
\* the operation when it has one.
EffectiveActions(v, action) ==
    {"list", "retrieve", "create", "update", "partial_update", "delete"}
        \cup DOMAIN v.permission_map
        \cup (IF action = ExtraAction /\ v.extra.kind \notin {"absent", "plain"}
              THEN {action} ELSE {})

\* C4: for a named action that is not in the handler's effective permission
\* map, resolution returns the handler's NOT_FOUND_PERMISSION_DEFAULT for
\* every caller and object, unless the action is the metadata action, which
\* is always allowed.
C4_UnknownActionGetsDefault ==
    query # Nothing =>
        LET q == Get(query) IN
        /\ q.action = "metadata" => answer = TRUE
        /\ (q.action \notin {"metadata", None}
              /\ q.action \notin EffectiveActions(view, q.action))
                => answer = view.NOT_FOUND_PERMISSION_DEFAULT

\* C4 witness: a caller who holds only the view permission asks for destroy
\* on an object, the handler's map has no entry for destroy, its default is
\* to allow, and the answer is yes.
C4_Witness ==
    /\ query # Nothing
    /\ Get(query).action = "destroy" /\ Get(query).user = "viewer"
    /\ Get(query).obj # Nothing
    /\ "destroy" \notin EffectiveActions(view, "destroy")
    /\ view.NOT_FOUND_PERMISSION_DEFAULT = TRUE
    /\ answer = TRUE

-----------------------------------------------------------------------------
\* Properties of the request handlers.

Last(seq) == seq[Len(seq)]

\* The log after the step is the log before it and one more entry.
OneEntryWritten == Len(log') = Len(log) + 1 /\ SubSeq(log', 1, Len(log)) = log

\* C1: with the default permission for create, a POST on the collection with
\* a valid payload by a caller who holds the add permission returns 201 with
\* the created representation, persists exactly one new record and writes
\* exactly one addition audit entry; by a caller who lacks the add permission
\* it returns 403, persists nothing and writes no audit entry.
C1_CreateNeedsAddPermission ==
    [][(request'.method = "POST" /\ request'.route = "list"
            /\ "create" \notin DOMAIN view.permission_map) =>
        IF MakePermissionKey("add") \in UserPerms(request'.user)
        THEN IsValid(request'.data, FALSE) =>
                LET created == [id |-> next_pk, name |-> Get(request'.data)] IN
                /\ response' = Response(201, "item", <<created>>)
                /\ next_pk \notin DOMAIN store
                /\ DOMAIN store' = DOMAIN store \cup {next_pk}
                /\ store'[next_pk] = created
                /\ \A k \in DOMAIN store : store'[k] = store[k]
                /\ OneEntryWritten
                /\ Last(log').action_flag = "ADDITION"
                /\ Last(log').object_id = next_pk
                /\ Last(log').user_id = UserPk(request'.user)
                /\ Last(log').object_repr = Str(created)
        ELSE /\ response'.status = 403
             /\ store' = store
             /\ log' = log]_vars

\* C1 witness: the handler registered with no options has served the POST
\* of name "x" by a caller who holds the add permission: 201, the record is
\* in the table, and the log holds the one addition entry.
C1_Witness ==
    /\ view = DefaultView
    /\ request = Req("POST", "list", NoPk, "editor", Some("x"))
    /\ response = Response(201, "item", <<[id |-> 1, name |-> "x"]>>)
    /\ DOMAIN store = {1} /\ store[1].name = "x"
    /\ Len(log) = 1 /\ log[1].action_flag = "ADDITION" /\ log[1].object_id = 1

\* C2: a DELETE on a primary key that matches no record, by a caller who
\* holds the delete permission, is answered 404 and writes no audit entry.
C2_DeleteMissingIsNotFound ==
    (request.method = "DELETE" /\ response.status # 204
        /\ request.pk \notin DOMAIN store
        /\ MakePermissionKey("delete") \in UserPerms(request.user))
    => response.status = 404 /\ effects = <<>>

\* C3: a PUT or PATCH on an existing record with a valid payload, by a caller
\* who holds the change permission, returns 200 with the updated values and
\* writes exactly one change audit entry, whose field list is the names of
\* the fields whose values differ between the record before and after.
C3_ChangeEntryListsChangedFields ==
    [][(request'.method \in {"PUT", "PATCH"} /\ request'.pk \in DOMAIN store
            /\ MakePermissionKey("change") \in UserPerms(request'.user)
            /\ IsValid(request'.data, request'.method = "PATCH")) =>
        LET before == store[request'.pk]
            after == store'[request'.pk]
        IN /\ after = [id |-> request'.pk,
                       name |-> IF request'.data = Nothing THEN before.name
                                ELSE Get(request'.data)]
           /\ response' = Response(200, "item", <<after>>)
           /\ \A k \in DOMAIN store \ {request'.pk} : store'[k] = store[k]
           /\ OneEntryWritten
           /\ Last(log').action_flag = "CHANGE"
           /\ Last(log').object_id = request'.pk
           /\ Len(Last(log').change_message) = 1
           /\ Last(log').change_message[1].fields =
                    FieldsThatDiffer(before, after, WidgetFields)]_vars

\* C3 witness: a record created with name "x" was PATCHed with name "y":
\* 200 with name "y", and the change entry lists the field name.
C3_Witness ==
    /\ request = Req("PATCH", "detail", 1, "editor", Some("y"))
    /\ response = Response(200, "item", <<[id |-> 1, name |-> "y"]>>)
    /\ Len(log) = 2
    /\ log[1].action_flag = "ADDITION" /\ log[1].object_id = 1
    /\ log[2].action_flag = "CHANGE" /\ log[2].object_id = 1
    /\ log[2].change_message[1].fields = <<"name">>

\* C8: a DELETE that is authorized and finds its record writes the deletion
\* audit entry first and deletes the record second, and writes exactly one
\* entry: the entry names the primary key the record had.
C8_LogBeforeDelete ==
    [][(request'.method = "DELETE" /\ request'.pk \in DOMAIN store
            /\ HasPermission(view, "destroy", request')
            /\ HasObjectPermission(view, "destroy", request', store[request'.pk])) =>
        /\ response'.status = 204
        /\ effects' = <<"log_action", "perform_destroy">>
        /\ OneEntryWritten
        /\ Last(log').action_flag = "DELETION"
        /\ Last(log').object_id = request'.pk
        /\ DOMAIN store' = DOMAIN store \ {request'.pk}]_vars

\* C8 witness: a DELETE was answered 204 after the entry was written and the
\* record deleted, in this order.
C8_Witness ==
    /\ request.method = "DELETE" /\ response.status = 204
    /\ effects = <<"log_action", "perform_destroy">>
    /\ request.pk \notin DOMAIN store
    /\ Last(log).action_flag = "DELETION" /\ Last(log).object_id = request.pk

\* C9: every deletion entry of the log has as object_repr the display string
\* of the record it names.
C9_DeletionEntryHasDisplayString ==
    \A i \in 1..Len(log) :
        log[i].action_flag = "DELETION" =>
            /\ log[i].object_id # NoPk
            /\ log[i].object_repr.type = "str"
            /\ log[i].object_repr = Str([id |-> log[i].object_id])

====
